---- MODULE Spec2Model ----
(***************************************************************************)
(* Swipe tracking engine of hand-tracking-tab-swipe (SwipeTracking.py):    *)
(* per-finger bounded trails, swipe detection with a cooldown, cleanup of  *)
(* inactive trails, and the 8-way direction classifier.                    *)
(*                                                                         *)
(* Units.  Timestamps are readings of time.time(); one unit of `clock` is  *)
(* one second.  Trail points are pixel pairs <<x, y>>.  Lengths are real   *)
(* numbers of the form a + b*sqrt(2), held exactly as the pair <<a, b>>,   *)
(* so that square roots, ratios and the angle tests of the classifier are  *)
(* computed without rounding.                                              *)
(***************************************************************************)
EXTENDS Integers, Sequences, FiniteSets, TLC

VARIABLES
    finger_trails,      \* SwipeTracker.finger_trails: finger id -> deque of points
    finger_times,       \* SwipeTracker.finger_times: finger id -> deque of timestamps
    last_update_time,   \* SwipeTracker.last_update_time
    active_gestures,    \* SwipeTracker.active_gestures
    last_swipe_time,    \* SwipeTracker.last_swipe_time
    clock,              \* the reading time.time() returns now
    ret,                \* the call just made, if detect_swipe or cleanup_inactive_trails: its finger and result
    accepted,           \* history: per finger, the clock readings at which detect_swipe returned an event
    pushes,             \* history: per finger, the add_point calls since its trail was last emptied (counted up to max_points + 1)
    dir_start,          \* classifier input: start point
    dir_end,            \* classifier input: end point
    dir_out,            \* classifier output, or NotRun
    smooth_trail,       \* smoothness input: a trail
    smooth_out,         \* smoothness output, or None before the run
    key_out,            \* what register_key did for the classified direction, or None before the call
    config,             \* the arguments the tracker was constructed with, or None before construction
    pc                  \* where the per-frame loop of the caller stands

engine_vars == <<finger_trails, finger_times, last_update_time, active_gestures,
                 last_swipe_time, clock, ret, accepted, pushes>>
dir_vars == <<dir_start, dir_end, dir_out>>
smooth_vars == <<smooth_trail, smooth_out>>
\* the inputs and outputs of the pure functions run on their own
fn_vars == <<dir_start, dir_end, dir_out, smooth_trail, smooth_out, key_out>>
\* what a call on the tracker leaves alone
idle_vars == <<dir_start, dir_end, dir_out, smooth_trail, smooth_out, key_out, config, pc>>
vars == <<finger_trails, finger_times, last_update_time, active_gestures,
          last_swipe_time, clock, ret, accepted, pushes, dir_start, dir_end, dir_out,
          smooth_trail, smooth_out, key_out, config, pc>>

(***************************************************************************)
(* Bounds of the model and configuration of the engine.                    *)
(***************************************************************************)
\* capacity of a trail (constructor argument max_points)
max_points == 3
\* a run lasts MaxClock seconds
MaxClock == 3
\* a run starts at LateClock, a clock reading past swipe_cooldown and trail_timeout
\* as time.time() gives on a machine whose clock is set; the runs of SpecEarly start
\* at reading 0, the epoch
LateClock == 10
\* classifier inputs have coordinates a + b*sqrt(2) with |a|, |b| <= DirCoord
DirCoord == 1
\* pixel coordinate of the far corner of the square the fingers move on
FarPixel == 60
\* smoothness inputs have pixel coordinates in 0..SmoothCoord
SmoothCoord == 3

min_distance == 40
min_velocity == 50
trail_timeout == 2
swipe_cooldown == 2
NeverSwiped == 0

\* fingers_to_track
Fingers == {8, 12}
\* three corners of the square: the moves between them are right, down, down-right
\* and their opposites, of length FarPixel or FarPixel * sqrt(2)
Points == {<<0, 0>>, <<FarPixel, 0>>, <<FarPixel, FarPixel>>}
\* the finger whose motion the one-finger runs follow; the other one is never pushed there
MovingFingers == {8}
\* where both fingers rest in the two-finger runs
StillPoints == {<<0, 0>>}
\* the two ends of a horizontal swipe
LinePoints == {<<0, 0>>, <<FarPixel, 0>>}
\* points of one line on which the thresholds are met exactly: 150 px in three
\* seconds is min_velocity, and the path 0 -> 325 -> 150 has smoothness 150 / 500 = 0.3
GatePoints == {<<0, 0>>, <<150, 0>>, <<325, 0>>}

\* Python's None, and the KeyError a dict lookup of a missing key raises
None == [none |-> TRUE]
KeyError == [fault |-> "KeyError"]
NotRun == "not-run"
Directions == {"right", "down-right", "down", "down-left",
               "left", "up-left", "up", "up-right"}

(***************************************************************************)
(* Exact reals a + b*sqrt(2).                                              *)
(***************************************************************************)
R(n) == <<n, 0>>
RAdd(x, y) == <<x[1] + y[1], x[2] + y[2]>>
RSub(x, y) == <<x[1] - y[1], x[2] - y[2]>>
RMul(x, y) == <<x[1] * y[1] + 2 * x[2] * y[2], x[1] * y[2] + x[2] * y[1]>>
Sgn(n) == IF n > 0 THEN 1 ELSE IF n < 0 THEN -1 ELSE 0
RSign(x) ==
    IF x[1] >= 0 /\ x[2] >= 0 THEN (IF x[1] = 0 /\ x[2] = 0 THEN 0 ELSE 1)
    ELSE IF x[1] <= 0 /\ x[2] <= 0 THEN -1
    ELSE IF x[1] > 0 THEN Sgn(x[1] * x[1] - 2 * x[2] * x[2])
    ELSE Sgn(2 * x[2] * x[2] - x[1] * x[1])
RGreater(x, y) == RSign(RSub(x, y)) > 0
RECURSIVE ISqrt(_, _, _)
\* the largest r in lo..hi with r * r <= n, by bisection (lo * lo <= n < (hi + 1)^2);
\* mid * mid <= n is tested as mid <= n \div mid, which stays within 32 bits
ISqrt(n, lo, hi) ==
    IF lo >= hi THEN lo
    ELSE LET mid == (lo + hi + 1) \div 2
         IN  IF mid <= n \div mid THEN ISqrt(n, mid, hi) ELSE ISqrt(n, lo, mid - 1)
\* r if r * r = n, h * sqrt(2) if 2 * h * h = n
ExactRoot(n, r, h) ==
    CASE r * r = n -> <<r, 0>>
      [] 2 * h * h = n -> <<0, h>>
\* math.sqrt of an integer that is a square or twice a square, the only squared
\* lengths between corners of a square
Sqrt(n) == ExactRoot(n, ISqrt(n, 0, n), ISqrt(n \div 2, 0, n))

(***************************************************************************)
(* _get_swipe_direction.  angle = atan2(dy, dx) * 180 / pi is compared     *)
(* with the odd multiples k * 22.5 of the sector edges, k in               *)
(* {-7,-5,-3,-1,1,3,5,7}.  Edge(k) is a vector whose angle is exactly      *)
(* k * 22.5 degrees (tan 22.5 = 1 / (1 + sqrt 2)), and AngleCmp is the     *)
(* sign of angle - k * 22.5, decided by the side of that edge the vector   *)
(* <<dx, dy>> lies on.  atan2(0, 0) is 0.                                  *)
(***************************************************************************)
Abs(n) == IF n < 0 THEN -n ELSE n
EdgeX(k) ==
    IF Abs(k) = 1 THEN <<1, 1>>
    ELSE IF Abs(k) = 3 THEN <<1, 0>>
    ELSE IF Abs(k) = 5 THEN <<-1, 0>>
    ELSE <<-1, -1>>
EdgeY(k) ==
    LET up == IF Abs(k) = 1 \/ Abs(k) = 7 THEN <<1, 0>> ELSE <<1, 1>>
    IN  IF k > 0 THEN up ELSE RSub(R(0), up)
Cross(wx, wy, vx, vy) == RSub(RMul(wx, vy), RMul(wy, vx))
AngleCmp(dy, dx, k) ==
    IF k > 0
    THEN IF RSign(dy) < 0 THEN -1
         ELSE IF RSign(dy) = 0 /\ RSign(dx) = 0 THEN -1
         ELSE RSign(Cross(EdgeX(k), EdgeY(k), dx, dy))
    ELSE IF RSign(dy) >= 0 THEN 1
         ELSE RSign(Cross(EdgeX(k), EdgeY(k), dx, dy))

\* a bug the sector chain could have: the "right" sector loses its upper edge
MutSectorOf(dy, dx) ==
    IF AngleCmp(dy, dx, -1) >= 0 /\ AngleCmp(dy, dx, 1) < 0 THEN "right"
    ELSE IF AngleCmp(dy, dx, 1) >= 0 /\ AngleCmp(dy, dx, 3) <= 0 THEN "down-right"
    ELSE IF AngleCmp(dy, dx, 3) > 0 /\ AngleCmp(dy, dx, 5) <= 0 THEN "down"
    ELSE IF AngleCmp(dy, dx, 5) > 0 /\ AngleCmp(dy, dx, 7) <= 0 THEN "down-left"
    ELSE IF AngleCmp(dy, dx, 7) > 0 \/ AngleCmp(dy, dx, -7) <= 0 THEN "left"
    ELSE IF AngleCmp(dy, dx, -7) > 0 /\ AngleCmp(dy, dx, -5) <= 0 THEN "up-left"
    ELSE IF AngleCmp(dy, dx, -5) > 0 /\ AngleCmp(dy, dx, -3) <= 0 THEN "up"
    ELSE "up-right"

\* the if/elif chain on angle = atan2(dy, dx) * 180 / pi
SectorOf(dy, dx) ==
    IF AngleCmp(dy, dx, -1) >= 0 /\ AngleCmp(dy, dx, 1) <= 0 THEN "right"
    ELSE IF AngleCmp(dy, dx, 1) > 0 /\ AngleCmp(dy, dx, 3) <= 0 THEN "down-right"
    ELSE IF AngleCmp(dy, dx, 3) > 0 /\ AngleCmp(dy, dx, 5) <= 0 THEN "down"
    ELSE IF AngleCmp(dy, dx, 5) > 0 /\ AngleCmp(dy, dx, 7) <= 0 THEN "down-left"
    ELSE IF AngleCmp(dy, dx, 7) > 0 \/ AngleCmp(dy, dx, -7) <= 0 THEN "left"
    ELSE IF AngleCmp(dy, dx, -7) > 0 /\ AngleCmp(dy, dx, -5) <= 0 THEN "up-left"
    ELSE IF AngleCmp(dy, dx, -5) > 0 /\ AngleCmp(dy, dx, -3) <= 0 THEN "up"
    ELSE "up-right"

\* a bug the classifier could have: no direction for a zero displacement
MutDirectionNone(start, end) ==
    IF start = end THEN "none"
    ELSE SectorOf(RSub(end[2], start[2]), RSub(end[1], start[1]))

\* start and end are points whose coordinates are exact reals
_get_swipe_direction(start, end) ==
    LET dx == RSub(end[1], start[1])
        dy == RSub(end[2], start[2])
    IN  SectorOf(dy, dx)

\* a trail point (integer pixels) as a point with real coordinates
RealPoint(p) == <<R(p[1]), R(p[2])>>

(***************************************************************************)
(* Trails.                                                                 *)
(***************************************************************************)
\* a bug the bounded buffer could have: a full buffer drops its newest element
MutDequeAppend(q, x, n) ==
    IF n = 0 THEN << >>
    ELSE IF Len(q) >= n THEN Append(SubSeq(q, 1, Len(q) - 1), x)
    ELSE Append(q, x)

\* collections.deque(maxlen=n).append
DequeAppend(q, x, n) ==
    IF n = 0 THEN << >>
    ELSE IF Len(q) >= n THEN Append(Tail(q), x)
    ELSE Append(q, x)

\* dict assignment d[k] = v
Put(d, k, v) == [x \in DOMAIN d \cup {k} |-> IF x = k THEN v ELSE d[x]]

Dist2(p, q) == (q[1] - p[1]) * (q[1] - p[1]) + (q[2] - p[2]) * (q[2] - p[2])
\* math.sqrt((q[0] - p[0])**2 + (q[1] - p[1])**2)
Distance(p, q) == Sqrt(Dist2(p, q))

RECURSIVE PathLength(_, _)
\* the loop of _calculate_smoothness: sum of the segment lengths trail[i-1] -> trail[i], i <= n
PathLength(trail, n) ==
    IF n <= 1 THEN R(0)
    ELSE RAdd(PathLength(trail, n - 1), Distance(trail[n - 1], trail[n]))

\* a ratio num / den of exact reals, den > 0
Zero == [num |-> R(0), den |-> R(1)]
One == [num |-> R(1), den |-> R(1)]
\* min(num / den, 1.0)
MinOne(num, den) == IF RGreater(num, den) \/ num = den THEN One ELSE [num |-> num, den |-> den]
\* ratio > a / b for integers a >= 0, b > 0
RatioGreater(q, a, b) == RSign(RSub(RMul(R(b), q.num), RMul(R(a), q.den))) > 0

_calculate_smoothness(trail) ==
    IF Len(trail) < 3 THEN Zero
    ELSE LET expected_distance == Distance(trail[1], trail[Len(trail)])
             actual_distance == PathLength(trail, Len(trail))
         IN  IF RSign(expected_distance) = 0 THEN Zero
             ELSE IF RSign(actual_distance) > 0
                  THEN MinOne(expected_distance, actual_distance)
                  ELSE Zero

_is_valid_trail(finger_id) ==
    /\ finger_id \in DOMAIN finger_trails
    /\ Len(finger_trails[finger_id]) >= 3

\* a bug the analysis could have: the trail is measured from its second sample
MutAnalyzeFromSecond(trail, times, finger_id) ==
    IF Len(trail) < 3 \/ Len(times) < 3 THEN None
    ELSE LET start_point == trail[2]
             end_point == trail[Len(trail)]
             time_diff == times[Len(times)] - times[2]
             distance == Distance(start_point, end_point)
         IN  IF time_diff <= 0 THEN None
             ELSE [finger_id |-> finger_id,
                   start |-> start_point,
                   end |-> end_point,
                   distance |-> distance,
                   velocity |-> [num |-> distance, den |-> R(time_diff)],
                   direction |-> _get_swipe_direction(RealPoint(start_point),
                                                      RealPoint(end_point)),
                   smoothness |-> _calculate_smoothness(trail),
                   duration |-> time_diff,
                   timestamp |-> times[Len(times)]]

\* a bug the degenerate-time guard could have: < for <=, so that equal timestamps
\* reach the division distance / time_diff
MutAnalyzeTrail(trail, times, finger_id) ==
    IF Len(trail) < 3 \/ Len(times) < 3 THEN None
    ELSE LET start_point == trail[1]
             end_point == trail[Len(trail)]
             time_diff == times[Len(times)] - times[1]
             distance == Distance(start_point, end_point)
         IN  IF time_diff < 0 THEN None
             ELSE [finger_id |-> finger_id,
                   start |-> start_point,
                   end |-> end_point,
                   distance |-> distance,
                   velocity |-> [num |-> distance, den |-> R(time_diff)],
                   direction |-> _get_swipe_direction(RealPoint(start_point),
                                                      RealPoint(end_point)),
                   smoothness |-> _calculate_smoothness(trail),
                   duration |-> time_diff,
                   timestamp |-> times[Len(times)]]

_analyze_trail(trail, times, finger_id) ==
    IF Len(trail) < 3 \/ Len(times) < 3 THEN None
    ELSE LET start_point == trail[1]
             end_point == trail[Len(trail)]
             start_time == times[1]
             end_time == times[Len(times)]
             distance == Distance(start_point, end_point)
             time_diff == end_time - start_time
         IN  IF time_diff <= 0 THEN None
             ELSE [finger_id |-> finger_id,
                   start |-> start_point,
                   end |-> end_point,
                   distance |-> distance,
                   velocity |-> [num |-> distance, den |-> R(time_diff)],
                   direction |-> _get_swipe_direction(RealPoint(start_point),
                                                      RealPoint(end_point)),
                   smoothness |-> _calculate_smoothness(trail),
                   duration |-> time_diff,
                   timestamp |-> end_time]

\* a bug the validation could have: >= for > on the smoothness threshold
MutValidateSwipe(swipe_data) ==
    /\ RGreater(swipe_data.distance, R(min_distance))
    /\ RatioGreater(swipe_data.velocity, min_velocity, 1)
    /\ ~RatioGreater([num |-> RMul(R(3), swipe_data.smoothness.den),
                      den |-> RMul(R(10), swipe_data.smoothness.num)], 1, 1)

_validate_swipe(swipe_data) ==
    /\ RGreater(swipe_data.distance, R(min_distance))
    /\ RatioGreater(swipe_data.velocity, min_velocity, 1)
    /\ RatioGreater(swipe_data.smoothness, 3, 10)

(***************************************************************************)
(* IEEE-754 doubles, for _calculate_smoothness on arbitrary pixel trails.  *)
(* Python's float is a double: 53 significant bits, round to nearest, ties *)
(* to even.  Every double met here is 0 or lies in [1, 2^12), so it is a   *)
(* multiple of 2^-52; a double v is held as the natural number v * 2^54,   *)
(* written in base 2^24 as <<d0, d1, d2, d3>>, least significant first.    *)
(***************************************************************************)
LimbBase == 4096 * 4096
BigZero == <<0, 0, 0, 0>>
\* 2^54 = 2^6 * (2^24)^2: the double 1.0
BigOne == <<0, 0, 64, 0>>
BigAddSmall(x, c) ==
    LET s0 == x[1] + c
        s1 == x[2] + s0 \div LimbBase
        s2 == x[3] + s1 \div LimbBase
        s3 == x[4] + s2 \div LimbBase
    IN  <<s0 % LimbBase, s1 % LimbBase, s2 % LimbBase, s3 % LimbBase>>
BigAdd(x, y) ==
    LET s0 == x[1] + y[1]
        s1 == x[2] + y[2] + s0 \div LimbBase
        s2 == x[3] + y[3] + s1 \div LimbBase
        s3 == x[4] + y[4] + s2 \div LimbBase
    IN  <<s0 % LimbBase, s1 % LimbBase, s2 % LimbBase, s3 % LimbBase>>
\* x - y for x >= y
BigSub(x, y) ==
    LET s0 == x[1] - y[1]
        s1 == x[2] - y[2] + s0 \div LimbBase
        s2 == x[3] - y[3] + s1 \div LimbBase
        s3 == x[4] - y[4] + s2 \div LimbBase
    IN  <<s0 % LimbBase, s1 % LimbBase, s2 % LimbBase, s3 % LimbBase>>
BigLess(x, y) ==
    \/ x[4] < y[4]
    \/ x[4] = y[4] /\ x[3] < y[3]
    \/ x[4] = y[4] /\ x[3] = y[3] /\ x[2] < y[2]
    \/ x[4] = y[4] /\ x[3] = y[3] /\ x[2] = y[2] /\ x[1] < y[1]
BigDouble(x) == BigAdd(x, x)
BigHalve(x) ==
    <<x[1] \div 2 + (x[2] % 2) * (LimbBase \div 2),
      x[2] \div 2 + (x[3] % 2) * (LimbBase \div 2),
      x[3] \div 2 + (x[4] % 2) * (LimbBase \div 2),
      x[4] \div 2>>
BigOdd(x) == x[1] % 2 = 1
RECURSIVE BigShiftLeft(_, _)
BigShiftLeft(x, k) == IF k = 0 THEN x ELSE BigShiftLeft(BigDouble(x), k - 1)
RECURSIVE BigShiftRight(_, _)
BigShiftRight(x, k) == IF k = 0 THEN x ELSE BigShiftRight(BigHalve(x), k - 1)

RECURSIVE RoundShift(_, _, _)
\* halve x until it has 54 bits, 53 significant ones and a guard bit, keeping in
\* sticky whether a 1 was shifted out (or the value was inexact to begin with)
RoundShift(x, sticky, shifts) ==
    IF BigLess(x, BigOne) THEN [x |-> x, sticky |-> sticky, shifts |-> shifts]
    ELSE RoundShift(BigHalve(x), sticky \/ BigOdd(x), shifts + 1)
\* the double nearest to x (+ a fraction of a unit if sticky), ties to even
RoundDouble(x, sticky) ==
    IF x = BigZero THEN BigZero
    ELSE LET n == RoundShift(x, sticky, 0)
             m == BigHalve(n.x)
             up == BigOdd(n.x) /\ (n.sticky \/ BigOdd(m))
         IN  BigShiftLeft(IF up THEN BigAddSmall(m, 1) ELSE m, n.shifts + 1)

RECURSIVE SqrtDigits(_, _, _, _)
\* the square root, digit by digit in base 2, of n * 2^108: step `left` counts down
\* over the 16 base-4 digits of n and then over 54 zero digits; the result is
\* floor(sqrt(n) * 2^54) and the remainder, zero exactly when the root is exact
SqrtDigits(n, left, rem, root) ==
    IF left = 0 THEN [root |-> root, rem |-> rem]
    ELSE LET digit == IF left > 54 THEN (n \div (4 ^ (left - 55))) % 4 ELSE 0
             r == BigAddSmall(BigShiftLeft(rem, 2), digit)
             trial == BigAddSmall(BigShiftLeft(root, 2), 1)
         IN  IF BigLess(r, trial)
             THEN SqrtDigits(n, left - 1, r, BigDouble(root))
             ELSE SqrtDigits(n, left - 1, BigSub(r, trial), BigAddSmall(BigDouble(root), 1))
\* math.sqrt(n) for an integer 0 <= n < 2^31, correctly rounded
FloatSqrt(n) ==
    LET s == SqrtDigits(n, 70, BigZero, BigZero)
    IN  RoundDouble(s.root, s.rem # BigZero)
\* x + y on doubles
FloatAdd(x, y) == RoundDouble(BigAdd(x, y), FALSE)
FloatDistance(p, q) == FloatSqrt(Dist2(p, q))

RECURSIVE FloatPathLength(_, _)
\* actual_distance after the loop has added the segments up to trail[n]
FloatPathLength(trail, n) ==
    IF n <= 1 THEN BigZero
    ELSE FloatAdd(FloatPathLength(trail, n - 1), FloatDistance(trail[n - 1], trail[n]))

\* a bug the smoothness could have: max for min
MutFloatSmoothness(trail) ==
    IF Len(trail) < 3 THEN [num |-> BigZero, den |-> BigOne]
    ELSE LET expected_distance == FloatDistance(trail[1], trail[Len(trail)])
             actual_distance == FloatPathLength(trail, Len(trail))
         IN  IF expected_distance = BigZero THEN [num |-> BigZero, den |-> BigOne]
             ELSE IF actual_distance # BigZero
                  THEN IF BigLess(expected_distance, actual_distance)
                       THEN [num |-> BigOne, den |-> BigOne]
                       ELSE [num |-> expected_distance, den |-> actual_distance]
                  ELSE [num |-> BigZero, den |-> BigOne]

\* _calculate_smoothness in doubles.  The result is the double nearest to num / den,
\* given by the two doubles: it is 0.0 exactly when num is 0, 1.0 exactly when
\* num = den, and below 1.0 when num < den (the largest quotient of two unequal
\* doubles is below 1 - 2^-53, itself a double).  min(q, 1.0) makes num = den = 1.0
\* of every quotient >= 1.
FloatSmoothness(trail) ==
    IF Len(trail) < 3 THEN [num |-> BigZero, den |-> BigOne]
    ELSE LET expected_distance == FloatDistance(trail[1], trail[Len(trail)])
             actual_distance == FloatPathLength(trail, Len(trail))
         IN  IF expected_distance = BigZero THEN [num |-> BigZero, den |-> BigOne]
             ELSE IF actual_distance # BigZero
                  THEN IF BigLess(expected_distance, actual_distance)
                       THEN [num |-> expected_distance, den |-> actual_distance]
                       ELSE [num |-> BigOne, den |-> BigOne]
                  ELSE [num |-> BigZero, den |-> BigOne]

(***************************************************************************)
(* The engine's operations.  Every call reads the clock once (time.time()) *)
(* and records in `ret` what it was, for which finger, at which reading,   *)
(* and what it returned.                                                   *)
(***************************************************************************)
EmptyDict == [x \in {} |-> 0]
Called(op, finger_id, result) ==
    [op |-> op, finger_id |-> finger_id, result |-> result]
\* what `ret` holds after a step that is neither detect_swipe nor cleanup_inactive_trails
NoResult == Called("other", 0, None)
IsEvent(r) == r # None /\ r # KeyError

\* the fields of a SwipeTracker as one value
State ==
    [finger_trails |-> finger_trails, finger_times |-> finger_times,
     last_update_time |-> last_update_time, active_gestures |-> active_gestures,
     last_swipe_time |-> last_swipe_time]

\* a bug clear_trail could have: it also forgets when the finger last swiped
MutClearTrailForgets(st, finger_id) ==
    IF finger_id \in DOMAIN st.finger_trails
    THEN [st EXCEPT !.finger_trails[finger_id] = << >>,
                    !.finger_times[finger_id] = << >>,
                    !.last_swipe_time[finger_id] = NeverSwiped]
    ELSE st

\* a bug clear_trail could have: popleft() for clear(), dropping one sample only
MutClearTrailPops(st, finger_id) ==
    IF finger_id \in DOMAIN st.finger_trails /\ st.finger_trails[finger_id] # << >>
    THEN [st EXCEPT !.finger_trails[finger_id] = Tail(@),
                    !.finger_times[finger_id] = Tail(@)]
    ELSE st

\* a bug clear_trail could have: the timestamps are left behind
MutClearTrailKeepsTimes(st, finger_id) ==
    IF finger_id \in DOMAIN st.finger_trails
    THEN [st EXCEPT !.finger_trails[finger_id] = << >>]
    ELSE st

\* clear_trail as a function of the tracker's fields
ClearTrail(st, finger_id) ==
    IF finger_id \in DOMAIN st.finger_trails
    THEN [st EXCEPT !.finger_trails[finger_id] = << >>,
                    !.finger_times[finger_id] = << >>]
    ELSE st

RECURSIVE ClearEach(_, _)
\* for finger_id in ids: clear_trail(finger_id)
ClearEach(st, ids) ==
    IF ids = {} THEN st
    ELSE LET f == CHOOSE x \in ids : TRUE
         IN  ClearEach(ClearTrail(st, f), ids \ {f})

\* a bug the staleness test could have: >= for >
MutInactiveFingers(st, now) ==
    {f \in DOMAIN st.last_update_time : now - st.last_update_time[f] >= trail_timeout}

\* the fingers cleanup_inactive_trails finds inactive at reading now
InactiveFingers(st, now) ==
    {f \in DOMAIN st.last_update_time : now - st.last_update_time[f] > trail_timeout}

\* cleanup_inactive_trails as a function of the tracker's fields and the clock
Cleanup(st, now) == ClearEach(st, InactiveFingers(st, now))

\* a bug the cooldown test could have: the window is one second short
MutInCooldown(finger_id) == (clock - last_swipe_time[finger_id]) < swipe_cooldown - 1

\* the cooldown test of detect_swipe
InCooldown(finger_id) == (clock - last_swipe_time[finger_id]) < swipe_cooldown

add_point(finger_id, point) ==
    LET known == finger_id \in DOMAIN finger_trails
        trail == IF known THEN finger_trails[finger_id] ELSE << >>
        times == IF known THEN finger_times[finger_id] ELSE << >>
    IN  /\ finger_trails' = Put(finger_trails, finger_id, DequeAppend(trail, point, max_points))
        /\ finger_times' = Put(finger_times, finger_id, DequeAppend(times, clock, max_points))
        /\ active_gestures' = IF known THEN active_gestures
                              ELSE Put(active_gestures, finger_id, FALSE)
        /\ last_swipe_time' = IF known THEN last_swipe_time
                              ELSE Put(last_swipe_time, finger_id, NeverSwiped)
        /\ last_update_time' = Put(last_update_time, finger_id, clock)
        /\ ret' = NoResult
        /\ pushes' = [pushes EXCEPT ![finger_id] = IF @ > max_points THEN @ ELSE @ + 1]
        /\ UNCHANGED <<clock, accepted>>

\* a bug detect_swipe could have: the validity gate is missing
MutDetectResult(finger_id) ==
    IF finger_id \notin DOMAIN last_swipe_time THEN KeyError
    ELSE IF InCooldown(finger_id) THEN None
    ELSE LET swipe_data == _analyze_trail(finger_trails[finger_id],
                                          finger_times[finger_id], finger_id)
         IN  IF swipe_data # None /\ _validate_swipe(swipe_data) THEN swipe_data
             ELSE None

\* what detect_swipe returns: an event, None, or the KeyError of a missing key
DetectResult(finger_id) ==
    IF ~_is_valid_trail(finger_id) THEN None
    ELSE IF finger_id \notin DOMAIN last_swipe_time THEN KeyError
    ELSE IF InCooldown(finger_id) THEN None
    ELSE LET swipe_data == _analyze_trail(finger_trails[finger_id],
                                          finger_times[finger_id], finger_id)
         IN  IF swipe_data # None /\ _validate_swipe(swipe_data) THEN swipe_data
             ELSE None

\* a bug detect_swipe could have: an accepted swipe clears the trail
MutDetectSwipeClears(finger_id) ==
    /\ \E result \in {DetectResult(finger_id)} :
        /\ ret' = Called("detect_swipe", finger_id, result)
        /\ last_swipe_time' = IF IsEvent(result)
                              THEN [last_swipe_time EXCEPT ![finger_id] = clock]
                              ELSE last_swipe_time
        /\ accepted' = IF IsEvent(result)
                       THEN [accepted EXCEPT ![finger_id] = Append(@, clock)]
                       ELSE accepted
        /\ finger_trails' = IF IsEvent(result)
                            THEN [finger_trails EXCEPT ![finger_id] = << >>]
                            ELSE finger_trails
        /\ finger_times' = IF IsEvent(result)
                           THEN [finger_times EXCEPT ![finger_id] = << >>]
                           ELSE finger_times
        /\ UNCHANGED <<last_update_time, active_gestures, clock, pushes>>

\* a bug detect_swipe could have: one cooldown shared by all fingers
MutDetectSwipeShared(finger_id) ==
    /\ \E result \in {DetectResult(finger_id)} :
        /\ ret' = Called("detect_swipe", finger_id, result)
        /\ last_swipe_time' = IF IsEvent(result)
                              THEN [g \in DOMAIN last_swipe_time |-> clock]
                              ELSE last_swipe_time
        /\ accepted' = IF IsEvent(result)
                       THEN [accepted EXCEPT ![finger_id] = Append(@, clock)]
                       ELSE accepted
        /\ UNCHANGED <<finger_trails, finger_times, last_update_time, active_gestures,
                       clock, pushes>>

detect_swipe(finger_id) ==
    /\ \E result \in {DetectResult(finger_id)} :
        /\ ret' = Called("detect_swipe", finger_id, result)
        /\ last_swipe_time' = IF IsEvent(result)
                              THEN [last_swipe_time EXCEPT ![finger_id] = clock]
                              ELSE last_swipe_time
        /\ accepted' = IF IsEvent(result)
                       THEN [accepted EXCEPT ![finger_id] = Append(@, clock)]
                       ELSE accepted
        /\ UNCHANGED <<finger_trails, finger_times, last_update_time, active_gestures,
                       clock, pushes>>

SetState(st) ==
    /\ finger_trails' = st.finger_trails
    /\ finger_times' = st.finger_times
    /\ last_update_time' = st.last_update_time
    /\ active_gestures' = st.active_gestures
    /\ last_swipe_time' = st.last_swipe_time

clear_trail(finger_id) ==
    /\ SetState(ClearTrail(State, finger_id))
    /\ ret' = NoResult
    /\ pushes' = [pushes EXCEPT ![finger_id] = 0]
    /\ UNCHANGED <<clock, accepted>>

clear_all_trails ==
    /\ SetState(ClearEach(State, DOMAIN finger_trails))
    /\ ret' = NoResult
    /\ pushes' = [f \in Fingers |-> 0]
    /\ UNCHANGED <<clock, accepted>>

cleanup_inactive_trails ==
    /\ SetState(Cleanup(State, clock))
    /\ ret' = Called("cleanup_inactive_trails", 0, None)
    /\ pushes' = [f \in Fingers |->
                     IF f \in DOMAIN last_update_time
                        /\ clock - last_update_time[f] > trail_timeout
                     THEN 0 ELSE pushes[f]]
    /\ UNCHANGED <<clock, accepted>>

ClockStarts == {0, LateClock}

\* time passes between two calls
Tick ==
    /\ \E start \in ClockStarts : start <= clock /\ clock < start + MaxClock
    /\ clock' = clock + 1
    /\ ret' = NoResult
    /\ UNCHANGED <<finger_trails, finger_times, last_update_time, active_gestures,
                   last_swipe_time, accepted, pushes>>

\* time.time() is the wall clock: it reads less than before when the system clock
\* is set back between two calls
StepBack ==
    /\ clock > LateClock
    /\ clock' = clock - 1
    /\ ret' = NoResult
    /\ UNCHANGED <<finger_trails, finger_times, last_update_time, active_gestures,
                   last_swipe_time, accepted, pushes>>

Origin == <<R(0), R(0)>>

\* the tracker HandDetector constructs
DetectorConfig ==
    [max_points |-> max_points, min_distance |-> min_distance,
     min_velocity |-> min_velocity, trail_timeout |-> trail_timeout,
     swipe_cooldown |-> swipe_cooldown]
\* the caller is not inside its per-frame loop
NoFrame == [at |-> "idle", todo |-> << >>, swipes |-> << >>]

\* a tracker just constructed, with the clock at reading start
InitAt(start) ==
    /\ finger_trails = EmptyDict
    /\ finger_times = EmptyDict
    /\ last_update_time = EmptyDict
    /\ active_gestures = EmptyDict
    /\ last_swipe_time = EmptyDict
    /\ clock = start
    /\ ret = NoResult
    /\ accepted = [f \in Fingers |-> << >>]
    /\ pushes = [f \in Fingers |-> 0]
    /\ config = DetectorConfig
    /\ pc = NoFrame

\* the pure functions are not run on their own
FnIdle ==
    /\ dir_start = Origin
    /\ dir_end = Origin
    /\ dir_out = NotRun
    /\ smooth_trail = << >>
    /\ smooth_out = None
    /\ key_out = None

Init ==
    /\ InitAt(LateClock)
    /\ FnIdle

Next ==
    \/ \E f \in MovingFingers, p \in Points : add_point(f, p) /\ UNCHANGED idle_vars
    \/ \E f \in Fingers : detect_swipe(f) /\ UNCHANGED idle_vars
    \/ \E f \in Fingers : clear_trail(f) /\ UNCHANGED idle_vars
    \/ clear_all_trails /\ UNCHANGED idle_vars
    \/ cleanup_inactive_trails /\ UNCHANGED idle_vars
    \/ Tick /\ UNCHANGED idle_vars

Spec == Init /\ [][Next]_vars

\* the same calls on a machine whose clock starts at the epoch
InitEarly ==
    /\ InitAt(0)
    /\ FnIdle

SpecEarly == InitEarly /\ [][Next]_vars

(***************************************************************************)
(* The classifier alone, on inputs drawn from a grid of exact reals that   *)
(* holds vectors on every sector edge, e.g. <<1 + sqrt 2, 1>> at 22.5.     *)
(***************************************************************************)
DirReals == {<<a, b>> : a \in (-DirCoord)..DirCoord, b \in (-DirCoord)..DirCoord}
DirEnds == DirReals \X DirReals
DirStarts == {<<R(a), R(b)>> : a \in 0..DirCoord, b \in 0..DirCoord}

InitDir ==
    /\ InitAt(LateClock)
    /\ dir_start \in DirStarts
    /\ dir_end \in DirEnds
    /\ dir_out = NotRun
    /\ smooth_trail = << >>
    /\ smooth_out = None
    /\ key_out = None

Classify ==
    /\ dir_out = NotRun
    /\ dir_out' = _get_swipe_direction(dir_start, dir_end)
    /\ UNCHANGED <<dir_start, dir_end, key_out>>
    /\ UNCHANGED smooth_vars
    /\ UNCHANGED <<config, pc>>
    /\ UNCHANGED engine_vars

NextDir == Classify

SpecDir == InitDir /\ [][NextDir]_vars

(***************************************************************************)
(* Action dispatch (KeyRegister.py).  register_key matches the direction   *)
(* of an event against four cases and a fallback; its effect is the list   *)
(* of pyautogui calls it makes and the word it prints.  The loop of        *)
(* main.py calls it once for each event, with the event's direction.       *)
(***************************************************************************)
Hotkey(keys) == [fn |-> "hotkey", keys |-> keys]
Press(key) == [fn |-> "press", keys |-> <<key>>]
Did(calls, printed) == [calls |-> calls, printed |-> printed]

\* a bug register_key could have: "up-right" is missing from the first case
MutRegisterKey(direction) ==
    IF direction \in {"right", "down-right"}
    THEN Did(<<Hotkey(<<"ctrl", "tab">>)>>, "right")
    ELSE IF direction \in {"left", "down-left", "up-left"}
    THEN Did(<<Hotkey(<<"ctrl", "shift", "tab">>)>>, "left")
    ELSE IF direction = "up" THEN Did(<<Press("up")>>, "up")
    ELSE IF direction = "down" THEN Did(<<Press("down")>>, "down")
    ELSE Did(<< >>, "no direction")

register_key(direction) ==
    IF direction \in {"right", "down-right", "up-right"}
    THEN Did(<<Hotkey(<<"ctrl", "tab">>)>>, "right")
    ELSE IF direction \in {"left", "down-left", "up-left"}
    THEN Did(<<Hotkey(<<"ctrl", "shift", "tab">>)>>, "left")
    ELSE IF direction = "up" THEN Did(<<Press("up")>>, "up")
    ELSE IF direction = "down" THEN Did(<<Press("down")>>, "down")
    ELSE Did(<< >>, "no direction")

\* main.py, body of `for swipe in swipes`: the event's direction is dispatched
Dispatch ==
    /\ dir_out # NotRun
    /\ key_out = None
    /\ key_out' = register_key(dir_out)
    /\ UNCHANGED dir_vars
    /\ UNCHANGED smooth_vars
    /\ UNCHANGED <<config, pc>>
    /\ UNCHANGED engine_vars

NextKey ==
    \/ Classify
    \/ Dispatch

SpecKey == InitDir /\ [][NextKey]_vars

(***************************************************************************)
(* _calculate_smoothness alone, in doubles, on the trails of three pixel   *)
(* points that start at the origin of a small grid.                        *)
(***************************************************************************)
SmoothGrid == (0..SmoothCoord) \X (0..SmoothCoord)
SmoothTrails == {<<<<0, 0>>, p, q>> : p \in SmoothGrid, q \in SmoothGrid}

InitSmooth ==
    /\ InitAt(LateClock)
    /\ dir_start = Origin
    /\ dir_end = Origin
    /\ dir_out = NotRun
    /\ smooth_trail \in SmoothTrails
    /\ smooth_out = None
    /\ key_out = None

Smooth ==
    /\ smooth_out = None
    /\ smooth_out' = FloatSmoothness(smooth_trail)
    /\ UNCHANGED <<smooth_trail, key_out>>
    /\ UNCHANGED dir_vars
    /\ UNCHANGED <<config, pc>>
    /\ UNCHANGED engine_vars

NextSmooth == Smooth

SpecSmooth == InitSmooth /\ [][NextSmooth]_vars

(***************************************************************************)
(* Construction.  SwipeTracker.__init__ stores its four arguments and      *)
(* creates the empty dicts; it tests none of the arguments.                *)
(***************************************************************************)
MaxPointsArgs == {0, 2, 3, 10}
ThresholdArgs == {-1, 0, 50}

InitCtor ==
    /\ finger_trails = EmptyDict
    /\ finger_times = EmptyDict
    /\ last_update_time = EmptyDict
    /\ active_gestures = EmptyDict
    /\ last_swipe_time = EmptyDict
    /\ clock = LateClock
    /\ ret = NoResult
    /\ accepted = [f \in Fingers |-> << >>]
    /\ pushes = [f \in Fingers |-> 0]
    /\ config = None
    /\ pc = NoFrame
    /\ FnIdle

__init__(a_max_points, a_min_distance, a_min_velocity, a_trail_timeout) ==
    /\ config = None
    /\ config' = [max_points |-> a_max_points, min_distance |-> a_min_distance,
                  min_velocity |-> a_min_velocity, trail_timeout |-> a_trail_timeout,
                  swipe_cooldown |-> swipe_cooldown]
    /\ finger_trails' = EmptyDict
    /\ finger_times' = EmptyDict
    /\ last_update_time' = EmptyDict
    /\ active_gestures' = EmptyDict
    /\ last_swipe_time' = EmptyDict
    /\ UNCHANGED <<clock, ret, accepted, pushes, pc>>
    /\ UNCHANGED fn_vars

NextCtor ==
    \E mp \in MaxPointsArgs, md \in ThresholdArgs, mv \in ThresholdArgs, tt \in ThresholdArgs :
        __init__(mp, md, mv, tt)

SpecCtor == InitCtor /\ [][NextCtor]_vars

(***************************************************************************)
(* The per-frame loop of main.py: when a hand is seen,                     *)
(* HandDetector.update_swipe_tracking pushes a point for each tracked      *)
(* finger in turn and then cleans up, and HandDetector.check_swipes calls  *)
(* detect_swipe for each finger in turn, clearing the trail after each     *)
(* event.  pc.at is the call the loop makes next, pc.todo the fingers the  *)
(* running for-loop still has to visit, pc.swipes the list detected_swipes *)
(* of check_swipes, kept from its return until the next frame begins.  The *)
(* calls of one frame read the same second of the clock; time passes       *)
(* between frames, and for as long as no hand is seen.                     *)
(***************************************************************************)
TrackOrder == <<8, 12>>
Todo == IF pc.at = "idle" THEN TrackOrder ELSE pc.todo
\* the for-loop of check_swipes moves on to the fingers in rest
NextDetect(rest, swipes) ==
    IF rest = << >> THEN [at |-> "idle", todo |-> << >>, swipes |-> swipes]
    ELSE [at |-> "detect", todo |-> rest, swipes |-> swipes]

\* update_swipe_tracking, loop body: add_point for the next finger
PushStep ==
    /\ pc.at \in {"idle", "push"}
    /\ \E p \in LinePoints : add_point(Head(Todo), p)
    /\ pc' = IF Tail(Todo) = << >>
             THEN [at |-> "reap", todo |-> << >>, swipes |-> << >>]
             ELSE [at |-> "push", todo |-> Tail(Todo), swipes |-> << >>]
    /\ UNCHANGED <<config, dir_start, dir_end, dir_out, smooth_trail, smooth_out, key_out>>

\* update_swipe_tracking, last line; check_swipes starts with an empty list
ReapStep ==
    /\ pc.at = "reap"
    /\ cleanup_inactive_trails
    /\ pc' = [at |-> "detect", todo |-> TrackOrder, swipes |-> << >>]
    /\ UNCHANGED <<config, dir_start, dir_end, dir_out, smooth_trail, smooth_out, key_out>>

\* a bug check_swipes could have: the trail is not cleared after an event
MutDetectStep ==
    /\ pc.at = "detect"
    /\ detect_swipe(Head(pc.todo))
    /\ pc' = IF IsEvent(ret'.result)
             THEN NextDetect(Tail(pc.todo), Append(pc.swipes, ret'.result))
             ELSE NextDetect(Tail(pc.todo), pc.swipes)
    /\ UNCHANGED <<config, dir_start, dir_end, dir_out, smooth_trail, smooth_out, key_out>>

\* check_swipes, loop body: detect_swipe, and on an event append it
DetectStep ==
    /\ pc.at = "detect"
    /\ detect_swipe(Head(pc.todo))
    /\ pc' = IF IsEvent(ret'.result)
             THEN [at |-> "clear", todo |-> pc.todo, swipes |-> Append(pc.swipes, ret'.result)]
             ELSE NextDetect(Tail(pc.todo), pc.swipes)
    /\ UNCHANGED <<config, dir_start, dir_end, dir_out, smooth_trail, smooth_out, key_out>>

\* check_swipes, loop body after an event: clear_trail
ClearStep ==
    /\ pc.at = "clear"
    /\ clear_trail(Head(pc.todo))
    /\ pc' = NextDetect(Tail(pc.todo), pc.swipes)
    /\ UNCHANGED <<config, dir_start, dir_end, dir_out, smooth_trail, smooth_out, key_out>>

\* time passes between two frames
FrameTick ==
    /\ pc.at = "idle"
    /\ Tick
    /\ UNCHANGED idle_vars

NextFrame ==
    \/ PushStep
    \/ ReapStep
    \/ DetectStep
    \/ ClearStep
    \/ FrameTick

SpecFrame == Init /\ [][NextFrame]_vars

\* two fingers, both at rest: the runs that exercise several trails at once
NextTwo ==
    \/ \E f \in Fingers, p \in StillPoints : add_point(f, p) /\ UNCHANGED idle_vars
    \/ \E f \in Fingers : detect_swipe(f) /\ UNCHANGED idle_vars
    \/ \E f \in Fingers : clear_trail(f) /\ UNCHANGED idle_vars
    \/ clear_all_trails /\ UNCHANGED idle_vars
    \/ cleanup_inactive_trails /\ UNCHANGED idle_vars
    \/ Tick /\ UNCHANGED idle_vars

SpecTwo == Init /\ [][NextTwo]_vars

\* one finger on a line through the exact thresholds of the validation gate
NextGate ==
    \/ \E f \in MovingFingers, p \in GatePoints : add_point(f, p) /\ UNCHANGED idle_vars
    \/ \E f \in Fingers : detect_swipe(f) /\ UNCHANGED idle_vars
    \/ \E f \in Fingers : clear_trail(f) /\ UNCHANGED idle_vars
    \/ clear_all_trails /\ UNCHANGED idle_vars
    \/ cleanup_inactive_trails /\ UNCHANGED idle_vars
    \/ Tick /\ UNCHANGED idle_vars

SpecGate == Init /\ [][NextGate]_vars

\* one finger, on a machine whose clock may be set back
NextBack ==
    \/ \E f \in MovingFingers, p \in LinePoints : add_point(f, p) /\ UNCHANGED idle_vars
    \/ \E f \in Fingers : detect_swipe(f) /\ UNCHANGED idle_vars
    \/ Tick /\ UNCHANGED idle_vars
    \/ StepBack /\ UNCHANGED idle_vars

SpecBack == Init /\ [][NextBack]_vars

(***************************************************************************)
(* Properties.                                                             *)
(***************************************************************************)
Last(q) == q[Len(q)]
Min(a, b) == IF a < b THEN a ELSE b
LastN(q, n) == IF Len(q) <= n THEN q ELSE SubSeq(q, Len(q) - n + 1, Len(q))
\* the trail of a finger the tracker has not seen is empty
TrailOf(finger_id) ==
    IF finger_id \in DOMAIN finger_trails THEN finger_trails[finger_id] ELSE << >>
TimesOf(finger_id) ==
    IF finger_id \in DOMAIN finger_times THEN finger_times[finger_id] ELSE << >>
\* the finger's buffer passes the three thresholds and the degenerate-time guard
Qualifies(finger_id) ==
    /\ _is_valid_trail(finger_id)
    /\ LET swipe_data == _analyze_trail(finger_trails[finger_id],
                                        finger_times[finger_id], finger_id)
       IN  swipe_data # None /\ _validate_swipe(swipe_data)
Detected(finger_id) == ret.op = "detect_swipe" /\ ret.finger_id = finger_id

\* C1 (cooldown law): for each finger, any two clock readings at which detect_swipe
\* returned an event are at least swipe_cooldown apart, whatever calls came between.
C1_CooldownLaw ==
    \A f \in Fingers : \A i, j \in 1..Len(accepted[f]) :
        i < j => accepted[f][j] >= accepted[f][i] + swipe_cooldown

\* C1 witness: a swipe was accepted, the buffer qualifies again, and the detect_swipe
\* call just made inside the cooldown window returned no event.
C1_Witness ==
    \E f \in Fingers :
        /\ Detected(f) /\ ret.result = None
        /\ accepted[f] # << >>
        /\ clock < Last(accepted[f]) + swipe_cooldown
        /\ Qualifies(f)

\* C2 (FIFO eviction): after every add_point the trail holds min(n, max_points)
\* samples, n the pushes since it was last emptied, never more than max_points, with
\* as many timestamps as positions, and the buffer equals the last max_points
\* elements of the old buffer followed by the new sample, so only the oldest sample
\* is ever dropped.
C2_FifoEviction ==
    [][\A f \in Fingers, p \in Points :
          add_point(f, p) =>
              /\ finger_trails'[f] = LastN(Append(TrailOf(f), p), max_points)
              /\ finger_times'[f] = LastN(Append(TimesOf(f), clock), max_points)
              /\ Len(finger_trails'[f]) <= max_points
              /\ Len(finger_trails'[f]) = Min(pushes'[f], max_points)
              /\ Len(finger_times'[f]) = Len(finger_trails'[f])]_vars

\* C2 witness: more than max_points points were pushed since the trail was last
\* emptied, and the trail holds max_points samples of differing positions and times.
C2_Witness ==
    \E f \in DOMAIN finger_trails :
        /\ pushes[f] > max_points
        /\ Len(finger_trails[f]) = max_points
        /\ finger_trails[f][1] # Last(finger_trails[f])
        /\ finger_times[f][1] < Last(finger_times[f])

\* C3 (never-swiped sentinel): a finger for which no swipe was ever accepted is never
\* held back by the cooldown: whenever its buffer qualifies, detect_swipe returns an
\* event, at every clock reading.
C3_NeverSwipedPassesCooldown ==
    \A f \in Fingers :
        (Detected(f) /\ accepted[f] = << >> /\ Qualifies(f)) => IsEvent(ret.result)

\* C4 (too few samples): detect_swipe on a finger whose trail holds fewer than 3
\* samples (an unknown finger included) returns None and raises nothing.
C4_FewSamplesNoEvent ==
    \A f \in Fingers :
        (Detected(f) /\ Len(TrailOf(f)) < 3) => ret.result = None

\* C4 witness: the finger's trail was emptied after an accepted swipe and has received
\* one or two points since; the detect_swipe call just made returned None.
C4_Witness ==
    \E f \in Fingers :
        /\ Detected(f) /\ ret.result = None
        /\ accepted[f] # << >>
        /\ Len(TrailOf(f)) \in {1, 2}

\* a second C4 case: detect_swipe on a finger the tracker never saw returned None
C4_UnknownFinger ==
    \E f \in Fingers : Detected(f) /\ f \notin DOMAIN finger_trails /\ ret.result = None

\* C5 (last_swipe_time frame): the last_swipe_time of a known finger stays in the
\* tracker and changes only in a detect_swipe call for that finger that returns an
\* event; add_point, clear_trail, clear_all_trails, cleanup_inactive_trails and every
\* detect_swipe that returns None leave it as it was.
C5_LastSwipeTimeFrame ==
    [][\A f \in DOMAIN last_swipe_time :
          /\ f \in DOMAIN last_swipe_time'
          /\ last_swipe_time'[f] # last_swipe_time[f] =>
                 (ret'.op = "detect_swipe" /\ ret'.finger_id = f /\ IsEvent(ret'.result))]_vars

\* C5 witness: a swipe was accepted, the trail has been emptied since, and
\* last_swipe_time still holds the reading of the accepted swipe.
C5_Witness ==
    \E f \in DOMAIN finger_trails :
        /\ accepted[f] # << >>
        /\ finger_trails[f] = << >>
        /\ last_swipe_time[f] = Last(accepted[f])
        /\ last_swipe_time[f] # NeverSwiped

\* C6 (effect of an accepted swipe): a detect_swipe call that returns an event sets
\* the finger's last_swipe_time to the clock reading of the call and leaves every
\* trail's positions and timestamps as they were.
C6_AcceptKeepsTrail ==
    [][\A f \in Fingers :
          (ret'.op = "detect_swipe" /\ ret'.finger_id = f /\ IsEvent(ret'.result)) =>
              /\ last_swipe_time'[f] = clock
              /\ finger_trails' = finger_trails
              /\ finger_times' = finger_times]_vars

\* C6 witness: detect_swipe just returned an event built from a trail that is still
\* in place, and last_swipe_time is the reading of the call.
C6_Witness ==
    \E f \in DOMAIN finger_trails :
        /\ Detected(f) /\ IsEvent(ret.result)
        /\ last_swipe_time[f] = clock
        /\ Len(finger_trails[f]) >= 3
        /\ ret.result.start = finger_trails[f][1]
        /\ ret.result.end = Last(finger_trails[f])

\* C7 (cleanup): cleanup_inactive_trails empties the buffers of exactly the fingers
\* with clock - last_update_time > trail_timeout and leaves the buffers of every
\* other finger as they were.
C7_CleanupExactlyStale ==
    [][ret'.op = "cleanup_inactive_trails" =>
          \A f \in DOMAIN finger_trails :
              IF clock - last_update_time[f] > trail_timeout
              THEN finger_trails'[f] = << >> /\ finger_times'[f] = << >>
              ELSE /\ finger_trails'[f] = finger_trails[f]
                   /\ finger_times'[f] = finger_times[f]]_vars

\* C7 witness: right after a cleanup, a stale finger has an empty trail while a
\* finger updated exactly trail_timeout ago still holds its samples.
C7_Witness ==
    /\ ret.op = "cleanup_inactive_trails"
    /\ \E f, g \in DOMAIN finger_trails :
        /\ clock - last_update_time[f] > trail_timeout
        /\ finger_trails[f] = << >>
        /\ clock - last_update_time[g] = trail_timeout
        /\ finger_trails[g] # << >>

\* C8 (cleanup is idempotent): in every reachable state and for every clock reading
\* from now until every trail is stale, cleaning up twice at that reading gives the
\* state cleaning up once gives, and cleaning up when no finger is stale gives the
\* state unchanged.
C8_CleanupIdempotent ==
    \A now \in clock..(clock + trail_timeout + 1) :
        /\ Cleanup(Cleanup(State, now), now) = Cleanup(State, now)
        /\ InactiveFingers(State, now) = {} => Cleanup(State, now) = State

\* C8 witness: a state with a stale finger that still holds two or more samples, so
\* that the first cleanup changes the state and the second has work to repeat.
C8_Witness ==
    \E f \in DOMAIN finger_trails :
        /\ clock - last_update_time[f] > trail_timeout
        /\ Len(finger_trails[f]) >= 2
        /\ Cleanup(State, clock) # State

(***************************************************************************)
(* The sector tables, as intervals of the angle.  Above(k, closed) says    *)
(* the angle of the classified displacement is > k * 22.5 (>= if closed).  *)
(***************************************************************************)
Dx == RSub(dir_end[1], dir_start[1])
Dy == RSub(dir_end[2], dir_start[2])
Above(k, closed) == IF closed THEN AngleCmp(Dy, Dx, k) >= 0 ELSE AngleCmp(Dy, Dx, k) > 0
Below(k, closed) == IF closed THEN AngleCmp(Dy, Dx, k) <= 0 ELSE AngleCmp(Dy, Dx, k) < 0

\* every sector closed on its lower edge and open on its upper edge
LowerClosedTable(d) ==
    CASE d = "right" -> Above(-1, TRUE) /\ Below(1, FALSE)
      [] d = "down-right" -> Above(1, TRUE) /\ Below(3, FALSE)
      [] d = "down" -> Above(3, TRUE) /\ Below(5, FALSE)
      [] d = "down-left" -> Above(5, TRUE) /\ Below(7, FALSE)
      [] d = "left" -> Above(7, TRUE) \/ Below(-7, FALSE)
      [] d = "up-left" -> Above(-7, TRUE) /\ Below(-5, FALSE)
      [] d = "up" -> Above(-5, TRUE) /\ Below(-3, FALSE)
      [] d = "up-right" -> Above(-3, TRUE) /\ Below(-1, FALSE)
      [] OTHER -> FALSE

\* right closed on both edges, up-right open on both, left closed at -157.5 and open
\* at 157.5, every other sector open on its lower edge and closed on its upper edge
UpperClosedTable(d) ==
    CASE d = "right" -> Above(-1, TRUE) /\ Below(1, TRUE)
      [] d = "down-right" -> Above(1, FALSE) /\ Below(3, TRUE)
      [] d = "down" -> Above(3, FALSE) /\ Below(5, TRUE)
      [] d = "down-left" -> Above(5, FALSE) /\ Below(7, TRUE)
      [] d = "left" -> Above(7, FALSE) \/ Below(-7, TRUE)
      [] d = "up-left" -> Above(-7, FALSE) /\ Below(-5, TRUE)
      [] d = "up" -> Above(-5, FALSE) /\ Below(-3, TRUE)
      [] d = "up-right" -> Above(-3, FALSE) /\ Below(-1, FALSE)
      [] OTHER -> FALSE

C10_EightLabels ==
    dir_out # NotRun => dir_out \in Directions

\* C10, the events: the direction of every event detect_swipe returns is one of the
\* 8 labels.
C10_EventDirection ==
    IsEvent(ret.result) => ret.result.direction \in Directions

\* C10 witness: start = end was classified, as right.
C10_Witness ==
    /\ dir_start = dir_end
    /\ dir_out = "right"

(***************************************************************************)
(* The metrics of a finger's buffer, from squared lengths where a square   *)
(* root is not needed.                                                     *)
(***************************************************************************)
First(q) == q[1]
BufDist2(f) == Dist2(First(finger_trails[f]), Last(finger_trails[f]))
BufDuration(f) == Last(finger_times[f]) - First(finger_times[f])
BufStraight(f) == Distance(First(finger_trails[f]), Last(finger_trails[f]))
BufPath(f) == PathLength(finger_trails[f], Len(finger_trails[f]))
\* the straight-line distance, or the path length where that is shorter: the
\* numerator of min(straight / path, 1.0) over the denominator path
Min1Straight(f) == IF RGreater(BufStraight(f), BufPath(f)) THEN BufPath(f) ELSE BufStraight(f)
\* smoothness - 0.3 has the sign of 10 * straight - 3 * path (path > 0)
SmoothnessCmp(f) == RSign(RSub(RMul(R(10), BufStraight(f)), RMul(R(3), BufPath(f))))
DistanceOver(f) == BufDist2(f) > min_distance * min_distance
VelocityOver(f) ==
    BufDist2(f) > (min_velocity * BufDuration(f)) * (min_velocity * BufDuration(f))

C11_VelocityEdge ==
    \E f \in DOMAIN finger_trails :
        /\ Detected(f) /\ ret.result = None
        /\ Len(finger_trails[f]) >= 3
        /\ ~InCooldown(f)
        /\ BufDuration(f) > 0 /\ DistanceOver(f)
        /\ BufDist2(f) = (min_velocity * BufDuration(f)) * (min_velocity * BufDuration(f))
        /\ SmoothnessCmp(f) > 0

\* C12 (degenerate-time guard): a detect_swipe call on a buffer whose last timestamp
\* minus its first timestamp is <= 0 returns None, no event and no fault, and leaves
\* every field of the tracker as it was.
C12_DegenerateTimeGuard ==
    [][\A f \in DOMAIN finger_trails :
          (/\ ret'.op = "detect_swipe" /\ ret'.finger_id = f
           /\ finger_trails[f] # << >>
           /\ BufDuration(f) <= 0) =>
              /\ ret'.result = None
              /\ UNCHANGED <<finger_trails, finger_times, last_update_time,
                             active_gestures, last_swipe_time>>]_vars

\* C12 witness: outside the cooldown, detect_swipe returned None for a buffer of
\* three samples whose distance passes and whose last timestamp is before its first.
C12_Witness ==
    \E f \in DOMAIN finger_trails :
        /\ Detected(f) /\ ret.result = None
        /\ Len(finger_trails[f]) >= 3
        /\ ~InCooldown(f)
        /\ DistanceOver(f)
        /\ BufDuration(f) < 0

\* a second C12 case: the same with equal first and last timestamps
C12_DuplicateTimestamps ==
    \E f \in DOMAIN finger_trails :
        /\ Detected(f) /\ ret.result = None
        /\ Len(finger_trails[f]) >= 3
        /\ ~InCooldown(f)
        /\ DistanceOver(f)
        /\ BufDuration(f) = 0

(***************************************************************************)
(* Shapes of the trail given to _calculate_smoothness.                     *)
(***************************************************************************)
Seg(trail, i) == <<trail[i + 1][1] - trail[i][1], trail[i + 1][2] - trail[i][2]>>
Dot(u, v) == u[1] * v[1] + u[2] * v[2]
Det(u, v) == u[1] * v[2] - u[2] * v[1]
Collinear(trail) ==
    \A i, j \in 1..(Len(trail) - 1) : Det(Seg(trail, i), Seg(trail, j)) = 0
Monotonic(trail) ==
    \A i, j \in 1..(Len(trail) - 1) : Dot(Seg(trail, i), Seg(trail, j)) >= 0
DoublesBack(trail) ==
    \E i \in 1..(Len(trail) - 2) : Dot(Seg(trail, i), Seg(trail, i + 1)) < 0
AxisParallel(trail) ==
    \/ \A i \in 1..Len(trail) : trail[i][1] = trail[1][1]
    \/ \A i \in 1..Len(trail) : trail[i][2] = trail[1][2]
Straight(trail) ==
    /\ Len(trail) >= 3
    /\ Collinear(trail) /\ Monotonic(trail)
    /\ trail[1] # trail[Len(trail)]
NoPath(trail) == \A i \in 1..(Len(trail) - 1) : trail[i] = trail[i + 1]
\* the smoothness q = num / den compared with 0 and 1
IsZero(q) == q.num = BigZero
IsOne(q) == q.num = q.den
InUnitRange(q) == ~BigLess(q.den, q.num) /\ q.den # BigZero
\* q >= 1 - 2^-40, that is den - num <= den / 2^40
NearOne(q) ==
    /\ ~BigLess(q.den, q.num)
    /\ ~BigLess(BigShiftRight(q.den, 40), BigSub(q.den, q.num))

\* C13 as claimed: the smoothness is in [0, 1], is exactly 1.0 for every collinear,
\* monotonic trail of 3 or more points with non-zero displacement, is below 1.0 for
\* a trail that doubles back, and is 0.0 when first and last point coincide or the
\* path length is zero.
C13_StraightIsExactlyOne ==
    smooth_out # None =>
        /\ InUnitRange(smooth_out)
        /\ Straight(smooth_trail) => IsOne(smooth_out)
        /\ DoublesBack(smooth_trail) => ~IsOne(smooth_out)
        /\ (smooth_trail[1] = smooth_trail[Len(smooth_trail)] \/ NoPath(smooth_trail))
               => IsZero(smooth_out)

\* C13 amended: the smoothness is in [0, 1]; for a collinear, monotonic trail of 3 or
\* more points with non-zero displacement it is exactly 1.0 when the trail is
\* horizontal or vertical and at least 1 - 2^-40 otherwise (the square roots and
\* their sum are rounded); it is below 1.0 for a trail that doubles back, and 0.0
\* when first and last point coincide or the path length is zero.
C13_StraightIsOneRounded ==
    smooth_out # None =>
        /\ InUnitRange(smooth_out)
        /\ Straight(smooth_trail) =>
               /\ NearOne(smooth_out)
               /\ AxisParallel(smooth_trail) => IsOne(smooth_out)
        /\ DoublesBack(smooth_trail) => ~IsOne(smooth_out)
        /\ (smooth_trail[1] = smooth_trail[Len(smooth_trail)] \/ NoPath(smooth_trail))
               => IsZero(smooth_out)

\* C13 witness: a diagonal trail of three distinct collinear points in one direction
\* whose smoothness came out below 1.0.
C13_Witness ==
    /\ smooth_out # None
    /\ Straight(smooth_trail)
    /\ smooth_trail[1] # smooth_trail[2] /\ smooth_trail[2] # smooth_trail[3]
    /\ ~AxisParallel(smooth_trail)
    /\ ~IsOne(smooth_out) /\ NearOne(smooth_out)

\* more C13 cases: a doubled-back trail below 1.0, and a horizontal one at 1.0
C13_DoubledBackBelowOne ==
    smooth_out # None /\ DoublesBack(smooth_trail) /\ ~IsOne(smooth_out) /\ ~IsZero(smooth_out)
C13_HorizontalIsOne ==
    /\ smooth_out # None /\ Straight(smooth_trail) /\ AxisParallel(smooth_trail)
    /\ smooth_trail[1] # smooth_trail[2] /\ smooth_trail[2] # smooth_trail[3]
    /\ IsOne(smooth_out)

\* C14 (configuration is validated): no tracker exists whose max_points is below 3
\* or whose min_distance, min_velocity, trail_timeout or swipe_cooldown is negative;
\* the constructor rejects such arguments.
C14_ConfigRejected ==
    config # None =>
        /\ config.max_points >= 3
        /\ config.min_distance >= 0
        /\ config.min_velocity >= 0
        /\ config.trail_timeout >= 0
        /\ config.swipe_cooldown >= 0

\* C15 (determinism in the caller's inputs): what a call returns and the state it
\* leaves depend on the tracker's state and the call's arguments only, not on a
\* clock read inside the engine: when nothing but the clock moves between two calls,
\* detect_swipe(f) returns what it would have returned before, for every finger, and
\* cleanup_inactive_trails leaves the state it would have left before.
C15_ResultsIgnoreClock ==
    [][Tick =>
          /\ \A f \in Fingers : DetectResult(f)' = DetectResult(f)
          /\ Cleanup(State, clock)' = Cleanup(State, clock)]_vars

Sorted(q) == \A i, j \in 1..Len(q) : i < j => q[i] <= q[j]

\* C16 (aligned buffers): after every step and for every finger, the position
\* buffer and the timestamp buffer have the same length, the timestamps are in
\* non-decreasing order (the clock never goes back here), and the two buffers moved
\* in lockstep: the same number k of oldest entries left both, the entries kept
\* hold the position and the timestamp they held together before, and a new entry,
\* if any, is stamped with the clock reading of the call.
C16_BuffersAligned ==
    [][\A f \in DOMAIN finger_trails' :
          /\ f \in DOMAIN finger_times'
          /\ Len(finger_times'[f]) = Len(finger_trails'[f])
          /\ Len(finger_trails'[f]) <= max_points
          /\ Sorted(finger_times'[f])
          /\ \E k \in 0..Len(TrailOf(f)), n \in {0, 1} :
                /\ Len(finger_trails'[f]) = Len(TrailOf(f)) - k + n
                /\ \A i \in 1..(Len(TrailOf(f)) - k) :
                      /\ finger_trails'[f][i] = TrailOf(f)[i + k]
                      /\ finger_times'[f][i] = TimesOf(f)[i + k]
                /\ n = 1 => Last(finger_times'[f]) = clock]_vars

\* C16 witness: a trail that has evicted samples holds max_points samples with
\* strictly increasing timestamps, the last one moved away from the one before.
C16_Witness ==
    \E f \in DOMAIN finger_trails :
        /\ pushes[f] > max_points
        /\ Len(finger_trails[f]) = max_points
        /\ Len(finger_times[f]) = max_points
        /\ \A i \in 1..(max_points - 1) : finger_times[f][i] < finger_times[f][i + 1]
        /\ finger_trails[f][max_points - 1] # finger_trails[f][max_points]

\* C17 (the event describes the buffer): every event detect_swipe returns has the
\* oldest retained sample's position as start, the newest sample's position as end,
\* their timestamps' difference as duration and the newest timestamp as timestamp,
\* and its distance, velocity and smoothness are those of the retained samples; what
\* the buffer has evicted plays no part.
C17_EventDescribesBuffer ==
    \A f \in DOMAIN finger_trails :
        (Detected(f) /\ IsEvent(ret.result)) =>
            /\ ret.result.finger_id = f
            /\ ret.result.start = First(finger_trails[f])
            /\ ret.result.end = Last(finger_trails[f])
            /\ ret.result.duration = BufDuration(f)
            /\ ret.result.timestamp = Last(finger_times[f])
            /\ RMul(ret.result.distance, ret.result.distance) = R(BufDist2(f))
            /\ ret.result.velocity.num = ret.result.distance
            /\ ret.result.velocity.den = R(BufDuration(f))
            /\ RMul(ret.result.smoothness.num, BufPath(f))
                  = RMul(ret.result.smoothness.den, Min1Straight(f))

\* C17 witness: an event was returned for a buffer that had evicted a sample; the
\* event starts at the oldest sample still held.
C17_Witness ==
    \E f \in DOMAIN finger_trails :
        /\ Detected(f) /\ IsEvent(ret.result)
        /\ pushes[f] > max_points
        /\ ret.result.start = finger_trails[f][1]
        /\ ret.result.duration = Last(finger_times[f]) - finger_times[f][1]

\* C18 (clear after detection): in the per-frame loop, whenever check_swipes is
\* between two fingers or has returned, the trail of every finger it emitted an event
\* for is empty; and no sample serves two events: when an event is emitted for a
\* finger that had one before, every sample of its buffer was pushed at or after the
\* reading of the previous event, whose own samples were all cleared.
C18_ClearedAfterEvent ==
    [][/\ pc'.at \in {"idle", "detect"} =>
             \A i \in 1..Len(pc'.swipes) :
                 finger_trails'[pc'.swipes[i].finger_id] = << >>
       /\ \A f \in Fingers :
             (/\ ret'.op = "detect_swipe" /\ ret'.finger_id = f /\ IsEvent(ret'.result)
              /\ accepted[f] # << >>) =>
                 \A i \in 1..Len(finger_times[f]) : finger_times[f][i] >= Last(accepted[f])]_vars

\* C18 witness: check_swipes has returned the second event of a finger, and the
\* finger's trail is empty.
C18_Witness ==
    /\ pc.at = "idle"
    /\ \E i \in 1..Len(pc.swipes) :
          /\ Len(accepted[pc.swipes[i].finger_id]) >= 2
          /\ finger_trails[pc.swipes[i].finger_id] = << >>

\* C19 (no idle gap inside a trail): in the per-frame loop, once the cleanup of a
\* frame has run, no trail holds two consecutive samples whose timestamps are more
\* than trail_timeout apart: what was recorded before an idle period longer than
\* trail_timeout is gone before or when the finger is tracked again.
C19_NoIdleGapInTrail ==
    pc.at \in {"detect", "clear", "idle"} =>
        \A f \in DOMAIN finger_times :
            \A i \in 1..(Len(finger_times[f]) - 1) :
                finger_times[f][i + 1] - finger_times[f][i] <= trail_timeout

\* the fields of the tracker that belong to one finger
FieldOf(d, finger_id) == IF finger_id \in DOMAIN d THEN <<d[finger_id]>> ELSE << >>
FingerState(finger_id) ==
    <<FieldOf(finger_trails, finger_id), FieldOf(finger_times, finger_id),
      FieldOf(last_update_time, finger_id), FieldOf(last_swipe_time, finger_id)>>

\* the finger's buffer passes the guard and the three thresholds, from its own samples
OwnBufferPasses(g) ==
    /\ g \in DOMAIN finger_trails /\ Len(finger_trails[g]) >= 3
    /\ BufDuration(g) > 0
    /\ DistanceOver(g) /\ VelocityOver(g)
    /\ BufPath(g) # R(0) /\ SmoothnessCmp(g) > 0
\* the readings at which the finger's own events were accepted before this call
OwnEarlier(g) ==
    IF IsEvent(ret.result) THEN SubSeq(accepted[g], 1, Len(accepted[g]) - 1)
    ELSE accepted[g]
OwnCooldownOver(g) ==
    OwnEarlier(g) = << >> \/ clock - Last(OwnEarlier(g)) >= swipe_cooldown

\* Outside the cleanup, a step of the frame loop is the call of add_point, of
\* detect_swipe or of clear_trail for the finger Head(Todo), or the passing of time.
\* C20 (fingers are independent): a call of add_point, detect_swipe or clear_trail
\* for one finger leaves the trail, the timestamps, the last_update_time and the
\* last_swipe_time of every other finger as they were, and whether detect_swipe
\* returns an event for a finger follows from that finger's own buffer and its own
\* earlier events alone: an event accepted for one finger starts no cooldown for
\* another.
C20_FingersIndependent ==
    /\ [](\A g \in Fingers :
            Detected(g) => (IsEvent(ret.result) <=> (OwnBufferPasses(g) /\ OwnCooldownOver(g))))
    /\ [][pc.at \in {"idle", "push", "detect", "clear"} =>
             \A g \in Fingers \ {Head(Todo)} : FingerState(g)' = FingerState(g)]_vars

\* C20 witness: in one frame, at one clock reading, an event was accepted for finger
\* 8 and detect_swipe then returned an event for finger 12 as well.
C20_Witness ==
    /\ Detected(12) /\ IsEvent(ret.result)
    /\ accepted[8] # << >> /\ Last(accepted[8]) = clock
    /\ last_swipe_time[8] = clock /\ last_swipe_time[12] = clock

(***************************************************************************)
(* The actions of the dispatch table: "next" is the hotkey ctrl+tab,       *)
(* "previous" the hotkey ctrl+shift+tab, "up" and "down" the arrow keys.   *)
(***************************************************************************)
ActionNext == Hotkey(<<"ctrl", "tab">>)
ActionPrevious == Hotkey(<<"ctrl", "shift", "tab">>)
ActionUp == Press("up")
ActionDown == Press("down")
ActionTable ==
    [d \in Directions |->
        CASE d = "right" -> ActionNext
          [] d = "down-right" -> ActionNext
          [] d = "up-right" -> ActionNext
          [] d = "left" -> ActionPrevious
          [] d = "down-left" -> ActionPrevious
          [] d = "up-left" -> ActionPrevious
          [] d = "up" -> ActionUp
          [] d = "down" -> ActionDown]

\* C21 (dispatch covers every direction): for each of the eight labels register_key
\* makes exactly one pyautogui call, the one of the table (right, down-right and
\* up-right: next; left, down-left and up-left: previous; up: up; down: down), and
\* for the direction the classifier produced the call made is that one call and the
\* fallback branch, which prints "no direction" and presses nothing, is not taken.
C21_DispatchCoversDirections ==
    /\ \A d \in Directions :
           /\ register_key(d).calls = <<ActionTable[d]>>
           /\ register_key(d).printed # "no direction"
    /\ key_out # None =>
           /\ dir_out \in Directions
           /\ Len(key_out.calls) = 1
           /\ key_out.calls[1] = ActionTable[dir_out]
           /\ key_out.printed # "no direction"

\* C21 witness: the classifier produced up-right and the dispatch pressed ctrl+tab.
C21_Witness ==
    /\ dir_out = "up-right"
    /\ key_out # None
    /\ key_out.calls = <<ActionNext>>

====
